---- MODULE Spec2Model ----
(***************************************************************************)
(* Model of src/app.py: a Streamlit script that is re-executed from top to *)
(* bottom for every interaction of every browser session.  One server      *)
(* process holds the process environment and the st.cache_resource cache;  *)
(* every session owns its st.session_state; every run owns its module      *)
(* level variables (retriever, gemini_llm, memory, qa_chain, user_query,   *)
(* result, response) and the elements it renders.                          *)
(***************************************************************************)
EXTENDS Integers, Sequences, FiniteSets, TLC

\* ---------------------------------------------------------------- bounds
Sessions == {"A", "B"}
Queries == {"q1", "q2"}
Answers == {"a1", "a2"}
\* total number of non-empty queries submitted to the server process
MaxQueries == 2

\* ------------------------------------------------------------ value model
None == "None"
EmptyStr == ""
NoLock == "free"
Inputs == {None, EmptyStr} \cup Queries
EndStates == {"done", "stopped", "aborted"}
NoState == [k \in {} |-> <<>>]

VARIABLES
    pc,            \* per session: statement the current run is at
    environ,       \* "GOOGLE_API_KEY" in os.environ
    cache,         \* st.cache_resource entry of load_vector_store: 0 = none, n = n-th retriever built
    lock,          \* holder of the cache's compute lock
    stage,         \* per run: steps of the body of load_vector_store this run completed
    session_state, \* per session: st.session_state
    retriever,     \* per run: module variable retriever (0 = unbound)
    gemini_llm,    \* per run: LLM client created
    memory,        \* per run: exchanges held by the ConversationSummaryBufferMemory (None = not created)
    qa_chain,      \* per run: chain created
    user_query,    \* per run: value returned by st.chat_input
    response,      \* per run: result["answer"]
    srcOK,         \* per run: rendering result's source documents does not raise
    view,          \* per run: elements rendered so far, in page order
    inputRead,     \* per run: st.chat_input was executed
    chainCalls,    \* per run: number of calls of qa_chain
    forwarded,     \* per run: chat history the chain loaded from memory for its call
    fault,         \* per run: what went wrong ("none", "nokey", "load", "chain", "sources")
    histAtStart,   \* per run: chat history of the session when the run started
    buildCount,    \* number of completed executions of the body of load_vector_store
    nq,            \* number of non-empty queries submitted so far
    curId,         \* per run: ordinal of the submitted query (0 = none)
    histIds,       \* per session: ordinals of the exchanges in chat_history
    failedIds,     \* per session: ordinals of the queries whose handling raised
    completed      \* per session: number of queries handled without an exception

shared == <<environ, cache, lock, buildCount, nq>>
runvars == <<retriever, gemini_llm, memory, qa_chain, user_query, response, srcOK,
             view, inputRead, chainCalls, forwarded, fault, histAtStart, curId, stage>>
sessvars == <<session_state, histIds, failedIds, completed>>
vars == <<pc, shared, runvars, sessvars>>

\* st.session_state.chat_history, [] while the key is not set
History(s) ==
    IF "chat_history" \in DOMAIN session_state[s] THEN session_state[s]["chat_history"] ELSE <<>>

IsPrefix(a, b) == Len(a) <= Len(b) /\ SubSeq(b, 1, Len(a)) = a

Truthy(x) == x # None /\ x # EmptyStr

\* The loop of lines 121-125 with the bug "answer rendered before its question".
RECURSIVE RenderPast_BotFirst(_)
RenderPast_BotFirst(h) ==
    IF h = <<>> THEN <<>>
    ELSE <<<<"assistant", Head(h)[2]>>, <<"user", Head(h)[1]>>>> \o RenderPast_BotFirst(Tail(h))

\* Lines 121-125: the elements rendered by the loop over the chat history.
RECURSIVE RenderPast(_)
RenderPast(h) ==
    IF h = <<>> THEN <<>>
    ELSE <<<<"user", Head(h)[1]>>, <<"assistant", Head(h)[2]>>>> \o RenderPast(Tail(h))

Init ==
    /\ pc = [s \in Sessions |-> "new"]
    /\ environ = FALSE
    /\ cache = 0
    /\ lock = NoLock
    /\ buildCount = 0
    /\ nq = 0
    /\ stage = [s \in Sessions |-> {}]
    /\ session_state = [s \in Sessions |-> NoState]
    /\ retriever = [s \in Sessions |-> 0]
    /\ gemini_llm = [s \in Sessions |-> FALSE]
    /\ memory = [s \in Sessions |-> None]
    /\ qa_chain = [s \in Sessions |-> FALSE]
    /\ user_query = [s \in Sessions |-> None]
    /\ response = [s \in Sessions |-> None]
    /\ srcOK = [s \in Sessions |-> TRUE]
    /\ view = [s \in Sessions |-> <<>>]
    /\ inputRead = [s \in Sessions |-> FALSE]
    /\ chainCalls = [s \in Sessions |-> 0]
    /\ forwarded = [s \in Sessions |-> <<>>]
    /\ fault = [s \in Sessions |-> "none"]
    /\ histAtStart = [s \in Sessions |-> <<>>]
    /\ curId = [s \in Sessions |-> 0]
    /\ histIds = [s \in Sessions |-> <<>>]
    /\ failedIds = [s \in Sessions |-> {}]
    /\ completed = [s \in Sessions |-> 0]

\* The framework starts a run of the script for session s (page load or widget event).
StartRun(s) ==
    /\ pc[s] \in {"new"} \cup EndStates
    /\ pc' = [pc EXCEPT ![s] = "L20"]
    /\ stage' = [stage EXCEPT ![s] = {}]
    /\ retriever' = [retriever EXCEPT ![s] = 0]
    /\ gemini_llm' = [gemini_llm EXCEPT ![s] = FALSE]
    /\ memory' = [memory EXCEPT ![s] = None]
    /\ qa_chain' = [qa_chain EXCEPT ![s] = FALSE]
    /\ user_query' = [user_query EXCEPT ![s] = None]
    /\ response' = [response EXCEPT ![s] = None]
    /\ srcOK' = [srcOK EXCEPT ![s] = TRUE]
    /\ view' = [view EXCEPT ![s] = <<>>]
    /\ inputRead' = [inputRead EXCEPT ![s] = FALSE]
    /\ chainCalls' = [chainCalls EXCEPT ![s] = 0]
    /\ forwarded' = [forwarded EXCEPT ![s] = <<>>]
    /\ fault' = [fault EXCEPT ![s] = "none"]
    /\ histAtStart' = [histAtStart EXCEPT ![s] = History(s)]
    /\ curId' = [curId EXCEPT ![s] = 0]
    /\ UNCHANGED <<shared, sessvars>>

\* Lines 20-24, with the bug "the run goes on without the key".
CheckKey_NoStop(s) ==
    /\ pc[s] = "L20"
    /\ \E present \in BOOLEAN :
         IF present
         THEN /\ environ' = TRUE
              /\ UNCHANGED <<view, fault>>
         ELSE /\ view' = [view EXCEPT ![s] = Append(@, <<"error", "nokey">>)]
              /\ fault' = [fault EXCEPT ![s] = "nokey"]
              /\ UNCHANGED environ
    /\ pc' = [pc EXCEPT ![s] = "L48"]
    /\ UNCHANGED <<cache, lock, buildCount, nq, stage, retriever, gemini_llm, memory, qa_chain,
                   user_query, response, srcOK, inputRead, chainCalls, forwarded, histAtStart,
                   curId, sessvars>>

\* Lines 20-24: the key is copied from the secrets into os.environ, or the run
\* shows the missing-key error and stops.  The secrets are read on every run.
CheckKey(s) ==
    /\ pc[s] = "L20"
    /\ \E present \in BOOLEAN :
         IF present
         THEN /\ environ' = TRUE
              /\ pc' = [pc EXCEPT ![s] = "L48"]
              /\ UNCHANGED <<view, fault>>
         ELSE /\ view' = [view EXCEPT ![s] = Append(@, <<"error", "nokey">>)]
              /\ fault' = [fault EXCEPT ![s] = "nokey"]
              /\ pc' = [pc EXCEPT ![s] = "stopped"]
              /\ UNCHANGED environ
    /\ UNCHANGED <<cache, lock, buildCount, nq, stage, retriever, gemini_llm, memory, qa_chain,
                   user_query, response, srcOK, inputRead, chainCalls, forwarded, histAtStart,
                   curId, sessvars>>

\* Line 48 through the st.cache_resource wrapper of line 29: a cached
\* retriever is returned without executing the body; on a miss the run
\* goes for the compute lock.
CacheRead(s) ==
    /\ pc[s] = "L48"
    /\ IF cache # 0
       THEN /\ retriever' = [retriever EXCEPT ![s] = cache]
            /\ pc' = [pc EXCEPT ![s] = "L53"]
       ELSE /\ pc' = [pc EXCEPT ![s] = "L48_lock"]
            /\ UNCHANGED retriever
    /\ UNCHANGED <<shared, stage, gemini_llm, memory, qa_chain, user_query, response, srcOK,
                   view, inputRead, chainCalls, forwarded, fault, histAtStart, curId, sessvars>>

\* The wrapper with the bug "no second look at the cache under the lock".
AcquireLock_NoRecheck(s) ==
    /\ pc[s] = "L48_lock"
    /\ lock = NoLock
    /\ lock' = s
    /\ pc' = [pc EXCEPT ![s] = "L31"]
    /\ UNCHANGED <<environ, cache, buildCount, nq, stage, retriever, gemini_llm, memory, qa_chain,
                   user_query, response, srcOK, view, inputRead, chainCalls, forwarded, fault,
                   histAtStart, curId, sessvars>>

\* The wrapper takes the compute lock and looks at the cache again: a value
\* stored meanwhile by another run is returned, otherwise the body runs.
AcquireLock(s) ==
    /\ pc[s] = "L48_lock"
    /\ lock = NoLock
    /\ IF cache # 0
       THEN /\ retriever' = [retriever EXCEPT ![s] = cache]
            /\ pc' = [pc EXCEPT ![s] = "L53"]
            /\ UNCHANGED lock
       ELSE /\ lock' = s
            /\ pc' = [pc EXCEPT ![s] = "L31"]
            /\ UNCHANGED retriever
    /\ UNCHANGED <<environ, cache, buildCount, nq, stage, gemini_llm, memory, qa_chain,
                   user_query, response, srcOK, view, inputRead, chainCalls, forwarded, fault,
                   histAtStart, curId, sessvars>>

\* An exception leaves load_vector_store: nothing is cached, the lock is
\* released and, line 48 being outside any try, the run ends there.
LoadRaises(s) ==
    /\ lock' = NoLock
    /\ pc' = [pc EXCEPT ![s] = "aborted"]
    /\ fault' = [fault EXCEPT ![s] = "load"]
    /\ view' = [view EXCEPT ![s] = Append(@, <<"exception", "">>)]
    /\ UNCHANGED stage

\* LoadRaises with the bug "the exception is swallowed and the script goes on".
MakeEmbedding_Swallow(s) ==
    /\ pc[s] = "L31"
    /\ \E ok \in BOOLEAN :
         IF ok
         THEN /\ stage' = [stage EXCEPT ![s] = @ \cup {"model"}]
              /\ pc' = [pc EXCEPT ![s] = "L34"]
              /\ UNCHANGED <<lock, fault, view>>
         ELSE /\ lock' = NoLock
              /\ pc' = [pc EXCEPT ![s] = "L53"]
              /\ fault' = [fault EXCEPT ![s] = "load"]
              /\ UNCHANGED <<stage, view>>
    /\ UNCHANGED <<environ, cache, buildCount, nq, retriever, gemini_llm, memory, qa_chain,
                   user_query, response, srcOK, inputRead, chainCalls, forwarded,
                   histAtStart, curId, sessvars>>

\* Line 31: the embedding model is created (it may fail to load).
MakeEmbedding(s) ==
    /\ pc[s] = "L31"
    /\ \E ok \in BOOLEAN :
         IF ok
         THEN /\ stage' = [stage EXCEPT ![s] = @ \cup {"model"}]
              /\ pc' = [pc EXCEPT ![s] = "L34"]
              /\ UNCHANGED <<lock, fault, view>>
         ELSE LoadRaises(s)
    /\ UNCHANGED <<environ, cache, buildCount, nq, retriever, gemini_llm, memory, qa_chain,
                   user_query, response, srcOK, inputRead, chainCalls, forwarded,
                   histAtStart, curId, sessvars>>

\* Lines 34-35: the corpus file is opened and read (it may be missing).
ReadCorpus(s) ==
    /\ pc[s] = "L34"
    /\ \E ok \in BOOLEAN :
         IF ok
         THEN /\ stage' = [stage EXCEPT ![s] = @ \cup {"loaded"}]
              /\ pc' = [pc EXCEPT ![s] = "L38"]
              /\ UNCHANGED <<lock, fault, view>>
         ELSE LoadRaises(s)
    /\ UNCHANGED <<environ, cache, buildCount, nq, retriever, gemini_llm, memory, qa_chain,
                   user_query, response, srcOK, inputRead, chainCalls, forwarded,
                   histAtStart, curId, sessvars>>

\* Lines 38-39: the text is split into chunks.
SplitText(s) ==
    /\ pc[s] = "L38"
    /\ stage' = [stage EXCEPT ![s] = @ \cup {"chunked"}]
    /\ pc' = [pc EXCEPT ![s] = "L42"]
    /\ UNCHANGED <<shared, retriever, gemini_llm, memory, qa_chain, user_query, response, srcOK,
                   view, inputRead, chainCalls, forwarded, fault, histAtStart, curId, sessvars>>

\* Line 42: FAISS.from_documents embeds the chunks and builds the index.
BuildIndex(s) ==
    /\ pc[s] = "L42"
    /\ \E ok \in BOOLEAN :
         IF ok
         THEN /\ stage' = [stage EXCEPT ![s] = @ \cup {"indexed"}]
              /\ pc' = [pc EXCEPT ![s] = "L45"]
              /\ UNCHANGED <<lock, fault, view>>
         ELSE LoadRaises(s)
    /\ UNCHANGED <<environ, cache, buildCount, nq, retriever, gemini_llm, memory, qa_chain,
                   user_query, response, srcOK, inputRead, chainCalls, forwarded,
                   histAtStart, curId, sessvars>>

\* Line 45 and the wrapper's epilogue: the retriever is returned, stored in
\* the cache and bound to the module variable of line 48.
ReturnRetriever(s) ==
    /\ pc[s] = "L45"
    /\ buildCount' = buildCount + 1
    /\ cache' = buildCount + 1
    /\ lock' = NoLock
    /\ retriever' = [retriever EXCEPT ![s] = buildCount + 1]
    /\ pc' = [pc EXCEPT ![s] = "L53"]
    /\ UNCHANGED <<environ, nq, stage, gemini_llm, memory, qa_chain, user_query, response, srcOK,
                   view, inputRead, chainCalls, forwarded, fault, histAtStart, curId, sessvars>>

\* Lines 53-57: the LLM client is created; it takes the key from os.environ.
MakeLLM(s) ==
    /\ pc[s] = "L53"
    /\ gemini_llm' = [gemini_llm EXCEPT ![s] = TRUE]
    /\ pc' = [pc EXCEPT ![s] = "L62"]
    /\ UNCHANGED <<shared, stage, retriever, memory, qa_chain, user_query, response, srcOK,
                   view, inputRead, chainCalls, forwarded, fault, histAtStart, curId, sessvars>>

\* Lines 62-67: a new, empty conversation memory is created.
MakeMemory(s) ==
    /\ pc[s] = "L62"
    /\ memory' = [memory EXCEPT ![s] = <<>>]
    /\ pc' = [pc EXCEPT ![s] = "L92"]
    /\ UNCHANGED <<shared, stage, retriever, gemini_llm, qa_chain, user_query, response, srcOK,
                   view, inputRead, chainCalls, forwarded, fault, histAtStart, curId, sessvars>>

\* Lines 92-100: the chain is created over this run's llm, retriever and memory.
MakeChain(s) ==
    /\ pc[s] = "L92"
    /\ qa_chain' = [qa_chain EXCEPT ![s] = TRUE]
    /\ pc' = [pc EXCEPT ![s] = "L115"]
    /\ UNCHANGED <<shared, stage, retriever, gemini_llm, memory, user_query, response, srcOK,
                   view, inputRead, chainCalls, forwarded, fault, histAtStart, curId, sessvars>>

\* Lines 115-116: the session's chat history is created empty if it is not there.
InitSessionState(s) ==
    /\ pc[s] = "L115"
    /\ session_state' = [session_state EXCEPT ![s] =
           IF "chat_history" \in DOMAIN @ THEN @ ELSE [k \in {"chat_history"} |-> <<>>]]
    /\ pc' = [pc EXCEPT ![s] = "L118"]
    /\ UNCHANGED <<shared, runvars, histIds, failedIds, completed>>

\* Line 118: the chat input is rendered and returns the submitted text, if any.
ChatInput(s) ==
    /\ pc[s] = "L118"
    /\ \E q \in Inputs :
         /\ Truthy(q) => nq < MaxQueries
         /\ user_query' = [user_query EXCEPT ![s] = q]
         /\ nq' = IF Truthy(q) THEN nq + 1 ELSE nq
         /\ curId' = [curId EXCEPT ![s] = IF Truthy(q) THEN nq + 1 ELSE 0]
    /\ inputRead' = [inputRead EXCEPT ![s] = TRUE]
    /\ pc' = [pc EXCEPT ![s] = "L121"]
    /\ UNCHANGED <<environ, cache, lock, buildCount, stage, retriever, gemini_llm, memory,
                   qa_chain, response, srcOK, view, chainCalls, forwarded, fault, histAtStart,
                   sessvars>>

\* Lines 121-125: every recorded exchange is rendered, user message then answer.
DisplayPast(s) ==
    /\ pc[s] = "L121"
    /\ view' = [view EXCEPT ![s] = @ \o RenderPast(session_state[s]["chat_history"])]
    /\ pc' = [pc EXCEPT ![s] = "L128"]
    /\ UNCHANGED <<shared, stage, retriever, gemini_llm, memory, qa_chain, user_query, response,
                   srcOK, inputRead, chainCalls, forwarded, fault, histAtStart, curId, sessvars>>

\* Lines 128-130: a submitted query is rendered as a user message; without one the run ends.
NewQuery(s) ==
    /\ pc[s] = "L128"
    /\ IF Truthy(user_query[s])
       THEN /\ view' = [view EXCEPT ![s] = Append(@, <<"user", user_query[s]>>)]
            /\ pc' = [pc EXCEPT ![s] = "L134"]
       ELSE /\ pc' = [pc EXCEPT ![s] = "done"]
            /\ UNCHANGED view
    /\ UNCHANGED <<shared, stage, retriever, gemini_llm, memory, qa_chain, user_query, response,
                   srcOK, inputRead, chainCalls, forwarded, fault, histAtStart, curId, sessvars>>

\* Lines 134-135 with the bug "the call is not inside the try".
CallChain_NoTry(s) ==
    /\ pc[s] = "L134"
    /\ chainCalls' = [chainCalls EXCEPT ![s] = @ + 1]
    /\ forwarded' = [forwarded EXCEPT ![s] = memory[s]]
    /\ \/ \E a \in Answers, ok \in BOOLEAN :
            /\ response' = [response EXCEPT ![s] = a]
            /\ srcOK' = [srcOK EXCEPT ![s] = ok]
            /\ memory' = [memory EXCEPT ![s] = Append(@, <<user_query[s], a>>)]
            /\ pc' = [pc EXCEPT ![s] = "L137"]
            /\ UNCHANGED fault
       \/ /\ fault' = [fault EXCEPT ![s] = "chain"]
          /\ pc' = [pc EXCEPT ![s] = "aborted"]
          /\ UNCHANGED <<response, srcOK, memory>>
    /\ UNCHANGED <<shared, stage, retriever, gemini_llm, qa_chain, user_query, view, inputRead,
                   histAtStart, curId, sessvars>>

\* Lines 134-135: the chain loads the chat history from its memory, retrieves,
\* asks the LLM and saves the exchange to the memory; or it raises.
CallChain(s) ==
    /\ pc[s] = "L134"
    /\ chainCalls' = [chainCalls EXCEPT ![s] = @ + 1]
    /\ forwarded' = [forwarded EXCEPT ![s] = memory[s]]
    /\ \/ \E a \in Answers, ok \in BOOLEAN :
            /\ response' = [response EXCEPT ![s] = a]
            /\ srcOK' = [srcOK EXCEPT ![s] = ok]
            /\ memory' = [memory EXCEPT ![s] = Append(@, <<user_query[s], a>>)]
            /\ pc' = [pc EXCEPT ![s] = "L137"]
            /\ UNCHANGED fault
       \/ /\ fault' = [fault EXCEPT ![s] = "chain"]
          /\ pc' = [pc EXCEPT ![s] = "L149"]
          /\ UNCHANGED <<response, srcOK, memory>>
    /\ UNCHANGED <<shared, stage, retriever, gemini_llm, qa_chain, user_query, view, inputRead,
                   histAtStart, curId, sessvars>>

\* Lines 137-138: the answer is rendered as an assistant message.
ShowAnswer(s) ==
    /\ pc[s] = "L137"
    /\ view' = [view EXCEPT ![s] = Append(@, <<"assistant", response[s]>>)]
    /\ pc' = [pc EXCEPT ![s] = "L140"]
    /\ UNCHANGED <<shared, stage, retriever, gemini_llm, memory, qa_chain, user_query, response,
                   srcOK, inputRead, chainCalls, forwarded, fault, histAtStart, curId, sessvars>>

\* Lines 140-144 with the bug "the exchange is recorded before the sources are rendered".
ShowSources_AppendFirst(s) ==
    /\ pc[s] = "L140"
    /\ view' = [view EXCEPT ![s] = Append(@, <<"expander", "sources">>)]
    /\ session_state' = [session_state EXCEPT ![s]["chat_history"] =
                            Append(@, <<user_query[s], response[s]>>)]
    /\ histIds' = [histIds EXCEPT ![s] = Append(@, curId[s])]
    /\ completed' = [completed EXCEPT ![s] = IF srcOK[s] THEN @ + 1 ELSE @]
    /\ IF srcOK[s]
       THEN /\ pc' = [pc EXCEPT ![s] = "done"]
            /\ UNCHANGED fault
       ELSE /\ fault' = [fault EXCEPT ![s] = "sources"]
            /\ pc' = [pc EXCEPT ![s] = "L149"]
    /\ UNCHANGED <<shared, stage, retriever, gemini_llm, memory, qa_chain, user_query, response,
                   srcOK, inputRead, chainCalls, forwarded, histAtStart, curId, failedIds>>

\* Lines 140-144: the expander is opened and the source documents are
\* rendered in it; reading a document's fields may raise.
ShowSources(s) ==
    /\ pc[s] = "L140"
    /\ view' = [view EXCEPT ![s] = Append(@, <<"expander", "sources">>)]
    /\ IF srcOK[s]
       THEN /\ pc' = [pc EXCEPT ![s] = "L146"]
            /\ UNCHANGED fault
       ELSE /\ fault' = [fault EXCEPT ![s] = "sources"]
            /\ pc' = [pc EXCEPT ![s] = "L149"]
    /\ UNCHANGED <<shared, stage, retriever, gemini_llm, memory, qa_chain, user_query, response,
                   srcOK, inputRead, chainCalls, forwarded, histAtStart, curId, sessvars>>

\* Line 146 with the bug "the chat history is one list shared by all sessions".
AppendHistory_Shared(s) ==
    /\ pc[s] = "L146"
    /\ session_state' = [t \in Sessions |->
           [k \in {"chat_history"} |-> Append(History(t), <<user_query[s], response[s]>>)]]
    /\ histIds' = [t \in Sessions |-> Append(histIds[t], curId[s])]
    /\ completed' = [completed EXCEPT ![s] = @ + 1]
    /\ pc' = [pc EXCEPT ![s] = "done"]
    /\ UNCHANGED <<shared, runvars, failedIds>>

\* Line 146 with the bug "the newest exchange is put first".
AppendHistory_Prepend(s) ==
    /\ pc[s] = "L146"
    /\ session_state' = [session_state EXCEPT ![s]["chat_history"] =
                            <<<<user_query[s], response[s]>>>> \o @]
    /\ histIds' = [histIds EXCEPT ![s] = <<curId[s]>> \o @]
    /\ completed' = [completed EXCEPT ![s] = @ + 1]
    /\ pc' = [pc EXCEPT ![s] = "done"]
    /\ UNCHANGED <<shared, runvars, failedIds>>

\* Line 146: the exchange is appended to the session's chat history.
AppendHistory(s) ==
    /\ pc[s] = "L146"
    /\ session_state' = [session_state EXCEPT ![s]["chat_history"] =
                            Append(@, <<user_query[s], response[s]>>)]
    /\ histIds' = [histIds EXCEPT ![s] = Append(@, curId[s])]
    /\ completed' = [completed EXCEPT ![s] = @ + 1]
    /\ pc' = [pc EXCEPT ![s] = "done"]
    /\ UNCHANGED <<shared, runvars, failedIds>>

\* Lines 148-150 with the bug "the handler calls the chain again".
HandleException_Retry(s) ==
    /\ pc[s] = "L149"
    /\ view' = [view EXCEPT ![s] = @ \o <<<<"error", "generic">>, <<"exception", "">>>>]
    /\ failedIds' = [failedIds EXCEPT ![s] = @ \cup {curId[s]}]
    /\ pc' = [pc EXCEPT ![s] = IF chainCalls[s] < 2 THEN "L134" ELSE "done"]
    /\ UNCHANGED <<shared, stage, retriever, gemini_llm, memory, qa_chain, user_query, response,
                   srcOK, inputRead, chainCalls, forwarded, fault, histAtStart, curId,
                   session_state, histIds, completed>>

\* Lines 148-150: the catch-all renders the generic error and the exception; the run ends.
HandleException(s) ==
    /\ pc[s] = "L149"
    /\ view' = [view EXCEPT ![s] = @ \o <<<<"error", "generic">>, <<"exception", "">>>>]
    /\ failedIds' = [failedIds EXCEPT ![s] = @ \cup {curId[s]}]
    /\ pc' = [pc EXCEPT ![s] = "done"]
    /\ UNCHANGED <<shared, stage, retriever, gemini_llm, memory, qa_chain, user_query, response,
                   srcOK, inputRead, chainCalls, forwarded, fault, histAtStart, curId,
                   session_state, histIds, completed>>

Next ==
    \E s \in Sessions :
        \/ StartRun(s)
        \/ CheckKey(s)
        \/ CacheRead(s)
        \/ AcquireLock(s)
        \/ MakeEmbedding(s)
        \/ ReadCorpus(s)
        \/ SplitText(s)
        \/ BuildIndex(s)
        \/ ReturnRetriever(s)
        \/ MakeLLM(s)
        \/ MakeMemory(s)
        \/ MakeChain(s)
        \/ InitSessionState(s)
        \/ ChatInput(s)
        \/ DisplayPast(s)
        \/ NewQuery(s)
        \/ CallChain(s)
        \/ ShowAnswer(s)
        \/ ShowSources(s)
        \/ AppendHistory(s)
        \/ HandleException(s)

Spec == Init /\ [][Next]_vars

\* ------------------------------------------------------------------ claims
AfterDisplay == {"L128", "L134", "L137", "L140", "L146", "L149", "done"}

\* The view v starts with the exchanges of h in order, each as the user
\* message followed by the assistant message.
ShownInOrder(v, h) ==
    /\ Len(v) >= 2 * Len(h)
    /\ \A i \in 1..Len(h) :
           /\ v[2 * i - 1] = <<"user", h[i][1]>>
           /\ v[2 * i] = <<"assistant", h[i][2]>>

\* C1: when the chain is called in a run of a session that already has
\* recorded exchanges, the chat history the chain forwards to the LLM is not
\* empty and equals the exchanges recorded in the session's chat history.
C1_HistoryForwarded ==
    \A s \in Sessions :
        (chainCalls[s] > 0 /\ histAtStart[s] # <<>>) =>
            /\ forwarded[s] # <<>>
            /\ forwarded[s] = histAtStart[s]

\* C2: a run whose chain call raised ends normally, having rendered the past
\* exchanges, the query, the generic error and the exception and no assistant
\* answer; the chat history is the one the run started with and the chat
\* input was rendered, so the session can submit again.
C2_ChainExceptionHandled ==
    \A s \in Sessions :
        (fault[s] = "chain" /\ pc[s] \in EndStates) =>
            /\ pc[s] = "done"
            /\ ShownInOrder(view[s], histAtStart[s])
            /\ SubSeq(view[s], 2 * Len(histAtStart[s]) + 1, Len(view[s])) =
                   <<<<"user", user_query[s]>>, <<"error", "generic">>, <<"exception", "">>>>
            /\ History(s) = histAtStart[s]
            /\ inputRead[s]
            /\ ENABLED StartRun(s)

C2_Witness ==
    \E s \in Sessions : fault[s] = "chain" /\ pc[s] = "done" /\ Len(History(s)) > 0

\* C3 as stated: every run, however it ends, has rendered all exchanges
\* recorded so far, in order.
C3_EveryRunShowsHistory ==
    \A s \in Sessions :
        pc[s] \in EndStates => ShownInOrder(view[s], histAtStart[s])

\* C3 amended: every run that gets past the API-key check and the retriever
\* load renders all recorded exchanges in the order of the chat history, user
\* message then assistant message, before the message of the new query; the
\* chat history keeps the exchanges, so later runs render them again.
C3_DisplayedRunShowsHistory ==
    \A s \in Sessions :
        pc[s] \in AfterDisplay =>
            /\ ShownInOrder(view[s], histAtStart[s])
            /\ IsPrefix(histAtStart[s], History(s))
            /\ pc[s] = "L128" => Len(view[s]) = 2 * Len(histAtStart[s])
            /\ (pc[s] # "L128" /\ Truthy(user_query[s])) =>
                   /\ Len(view[s]) > 2 * Len(histAtStart[s])
                   /\ view[s][2 * Len(histAtStart[s]) + 1] = <<"user", user_query[s]>>
            /\ ~Truthy(user_query[s]) => Len(view[s]) = 2 * Len(histAtStart[s])

C3_Witness ==
    \E s \in Sessions :
        pc[s] = "L134" /\ Len(histAtStart[s]) = 1 /\ failedIds[s] = {}

C5_BuiltOnce ==
    /\ buildCount <= 1
    /\ cache \in {0, 1}
    /\ \A s \in Sessions : retriever[s] \in {0, cache}

C5_Witness ==
    \E s, t \in Sessions :
        /\ s # t /\ buildCount = 1
        /\ retriever[s] = 1 /\ stage[s] = {} /\ histAtStart[s] # <<>>
        /\ retriever[t] = 1 /\ stage[t] = {}

\* C6: the chain is never called twice in a run, and a finished run has called
\* it once if the chat input returned a non-empty query and not at all otherwise.
C6_OneCallPerQuery ==
    \A s \in Sessions :
        /\ chainCalls[s] <= 1
        /\ chainCalls[s] > 0 => Truthy(user_query[s])
        /\ pc[s] \in EndStates =>
               chainCalls[s] = (IF Truthy(user_query[s]) THEN 1 ELSE 0)

C6_Witness ==
    \E s, t \in Sessions :
        /\ pc[s] = "done" /\ fault[s] = "chain" /\ chainCalls[s] = 1
        /\ pc[t] = "done" /\ user_query[t] = EmptyStr /\ chainCalls[t] = 0

\* C7: a step of a run of one session leaves the session state of every other
\* session as it is, and changes its own chat history only by appending the
\* pair of its own query and answer.
C7_SessionIsolation ==
    [][\A s \in Sessions :
          pc'[s] # pc[s] =>
              /\ \A t \in Sessions \ {s} : session_state'[t] = session_state[t]
              /\ History(s)' # History(s) =>
                     History(s)' = Append(History(s), <<user_query[s], response[s]>>)]_vars

C7_Witness ==
    \E s, t \in Sessions :
        /\ s # t
        /\ Len(History(s)) = 1 /\ Len(History(t)) = 1
        /\ History(s) # History(t)
        /\ retriever[s] # 0 /\ retriever[s] = retriever[t]

\* C8: the chat history starts empty, its length is the number of queries of
\* the session handled without an exception, a run adds at most one entry, and
\* every step keeps the list as a prefix of the new one, an added entry being
\* the pair (submitted query, answer of the chain).
C8_AppendOnly ==
    /\ [](\A s \in Sessions :
             /\ pc[s] = "new" => History(s) = <<>>
             /\ Len(History(s)) = completed[s]
             /\ IsPrefix(histAtStart[s], History(s))
             /\ Len(History(s)) <= Len(histAtStart[s]) + 1)
    /\ [][\A s \in Sessions :
             /\ IsPrefix(History(s), History(s)')
             /\ Len(History(s)') > Len(History(s)) =>
                    /\ Len(History(s)') = Len(History(s)) + 1
                    /\ History(s)'[Len(History(s)')] = <<user_query[s], response[s]>>]_vars

C8_Witness ==
    \E s \in Sessions : Len(History(s)) = 1 /\ failedIds[s] # {} /\ pc[s] = "done"

\* C9: the pair is appended only after the answer and the sources expander
\* were rendered; a run whose sources rendering raised has shown the answer
\* and then the generic error and leaves the chat history as it was, and no
\* query whose handling raised is ever among the recorded exchanges that
\* later runs render.
C9_AppendIsLast ==
    \A s \in Sessions :
        /\ pc[s] = "L146" =>
               /\ Len(view[s]) >= 2
               /\ view[s][Len(view[s]) - 1] = <<"assistant", response[s]>>
               /\ view[s][Len(view[s])] = <<"expander", "sources">>
        /\ History(s) # histAtStart[s] => (pc[s] = "done" /\ fault[s] = "none")
        /\ (fault[s] = "sources" /\ pc[s] = "done") =>
               /\ ShownInOrder(view[s], histAtStart[s])
               /\ SubSeq(view[s], 2 * Len(histAtStart[s]) + 1, Len(view[s])) =
                      <<<<"user", user_query[s]>>, <<"assistant", response[s]>>,
                        <<"expander", "sources">>, <<"error", "generic">>, <<"exception", "">>>>
               /\ History(s) = histAtStart[s]
        /\ \A i \in 1..Len(histIds[s]) : histIds[s][i] \notin failedIds[s]
        /\ Len(histIds[s]) = Len(History(s))

C9_Witness ==
    \E s \in Sessions :
        fault[s] = "sources" /\ pc[s] = "done" /\ Len(histAtStart[s]) = 1

\* C10: a run that found no key has rendered only the missing-key error and
\* is stopped: no retriever, no build step, no LLM client, memory or chain, no
\* chat input, no chain call, chat history as at the start; and an LLM client
\* exists only when the key is in the process environment.
C10_MissingKeyStops ==
    \A s \in Sessions :
        /\ fault[s] = "nokey" =>
               /\ pc[s] = "stopped"
               /\ view[s] = <<<<"error", "nokey">>>>
               /\ retriever[s] = 0
               /\ stage[s] = {}
               /\ ~gemini_llm[s]
               /\ memory[s] = None
               /\ ~qa_chain[s]
               /\ ~inputRead[s]
               /\ chainCalls[s] = 0
               /\ History(s) = histAtStart[s]
        /\ pc[s] = "stopped" => fault[s] = "nokey"
        /\ gemini_llm[s] => environ

C10_Witness ==
    \E s \in Sessions : fault[s] = "nokey" /\ pc[s] = "stopped" /\ Len(History(s)) = 1
====
